---- MODULE Spec2Model ----
(***************************************************************************)
(* Model of the Python Code Analyzer (src/app.py): ingestion of uploaded   *)
(* files, the pattern-matching analysis engine analyze_python_code, and    *)
(* the derivation of best practices, issues and recommendations.           *)
(*                                                                         *)
(* Text is modelled lexically.  A content is a sequence of tokens; the     *)
(* token "\n" is the newline character, every other token is a maximal     *)
(* piece of text that the regular expressions of the program treat as a    *)
(* unit (a word, an operator, a quoted literal).  Two neighbouring tokens  *)
(* are separated by one blank unless one of them is "\n" or punctuation.   *)
(* A file name is a record [stem, ext] where ext is the suffix starting at *)
(* the last dot ("" when the name has no dot), so that                     *)
(* name.endswith('.py') is ext = ".py" and name == '.env' is               *)
(* stem = "" /\ ext = ".env".                                              *)
(***************************************************************************)
EXTENDS Integers, Sequences, FiniteSets, TLC

\* ------------------------------------------------------------------ bounds
\* Largest number of files in one upload (archive entries or uploaded blobs).
MaxUpload == 3
\* Largest number of records handed to one of two concurrent analyses.
MaxPair == 2

\* ------------------------------------------------------------------- text
NL == "\n"

\* str.lower() on the tokens of the vocabulary (re.IGNORECASE compares so).
Lower(t) ==
  CASE t = "FastAPI" -> "fastapi"
    [] t = "API_KEY" -> "api_key"
    [] t = "Import"  -> "import"
    [] t = "PASSWORD" -> "password"
    [] OTHER -> t

\* Tokens made of word characters only ([A-Za-z0-9_]+), as \w+ needs.
WordTokens ==
  { "import", "from", "openai", "fastapi", "FastAPI", "Import", "api_key",
    "API_KEY", "password", "PASSWORD", "secret", "token", "x", "1", "os",
    "async", "def", "handler", "pass", "class", "UserService", "User",
    "BaseModel", "f", "int", "key", "load_dotenv", "streamlit", "st",
    "as", "anthropic" }

\* Quoted literals with at least one character between the quotes:
\* ["\'][^"\']+["\'].  The empty literal '' is not one of them.
QuotedLiterals == { "'sk-12345'", "'k'", "'p'" }

\* The index of the first token at or after i that is not a newline
\* (\s* between two tokens), Len(content)+1 when there is none.
RECURSIVE SkipWs(_, _)
SkipWs(content, i) ==
  IF i > Len(content) THEN Len(content) + 1
  ELSE IF content[i] = NL THEN SkipWs(content, i + 1) ELSE i

\* Tokens i..j lie on one line ('.' does not match a newline).
SameLine(content, i, j) == \A m \in i..j : content[m] # NL

\* The number of newline characters taken for the number of lines.
LineCountNewlines(content) ==
  Cardinality({ i \in 1..Len(content) : content[i] = NL })

\* content.split('\n'): the number of lines is the number of newlines + 1.
LineCount(content) ==
  Cardinality({ i \in 1..Len(content) : content[i] = NL }) + 1

\* re.search(r'import X|from X', content, re.IGNORECASE) for a pattern given
\* as a set of <<keyword, module>> alternatives: the two words one blank apart.
SearchImport(alts, content) ==
  \E i \in 1..(Len(content) - 1) :
    <<Lower(content[i]), Lower(content[i + 1])>> \in alts

\* ------------------------------------------------------- pattern catalog
llm_labels ==
  << "OpenAI", "Anthropic (Claude)", "LangChain", "Hugging Face",
     "Google AI (Gemini)", "Cohere", "LlamaIndex", "Replicate",
     "Together AI", "Groq", "Ollama", "Mistral AI" >>

BothForms(mod) == { <<"import", mod>>, <<"from", mod>> }

llm_patterns(label) ==
  CASE label = "OpenAI" -> BothForms("openai")
    [] label = "Anthropic (Claude)" -> BothForms("anthropic")
    [] label = "LangChain" -> BothForms("langchain")
    [] label = "Hugging Face" ->
         BothForms("transformers") \cup { <<"import", "huggingface">> }
    [] label = "Google AI (Gemini)" -> BothForms("google.generativeai")
    [] label = "Cohere" -> BothForms("cohere")
    [] label = "LlamaIndex" -> BothForms("llama_index")
    [] label = "Replicate" -> BothForms("replicate")
    [] label = "Together AI" -> BothForms("together")
    [] label = "Groq" -> BothForms("groq")
    [] label = "Ollama" -> BothForms("ollama")
    [] label = "Mistral AI" -> BothForms("mistralai")

framework_labels ==
  << "FastAPI", "Flask", "Django", "Streamlit", "Gradio", "PyTorch",
     "TensorFlow", "NumPy", "Pandas", "SQLAlchemy", "Pydantic", "Requests",
     "AsyncIO", "Celery", "Redis", "MongoDB" >>

framework_patterns(label) ==
  CASE label = "FastAPI" -> BothForms("fastapi")
    [] label = "Flask" -> BothForms("flask")
    [] label = "Django" -> BothForms("django")
    [] label = "Streamlit" -> { <<"import", "streamlit">> }
    [] label = "Gradio" -> { <<"import", "gradio">> }
    [] label = "PyTorch" -> { <<"import", "torch">> }
    [] label = "TensorFlow" -> { <<"import", "tensorflow">> }
    [] label = "NumPy" -> { <<"import", "numpy">> }
    [] label = "Pandas" -> { <<"import", "pandas">> }
    [] label = "SQLAlchemy" -> BothForms("sqlalchemy")
    [] label = "Pydantic" -> BothForms("pydantic")
    [] label = "Requests" -> { <<"import", "requests">> }
    [] label = "AsyncIO" -> { <<"import", "asyncio">> }
    [] label = "Celery" -> BothForms("celery")
    [] label = "Redis" -> { <<"import", "redis">> }
    [] label = "MongoDB" -> BothForms("pymongo")

\* The labels of `labels` whose pattern is found in content, in catalog order
\* (the order of file_analysis['llms'] and file_analysis['frameworks']).
DetectLLMs(content) ==
  SelectSeq(llm_labels, LAMBDA l : SearchImport(llm_patterns(l), content))

DetectFrameworks(content) ==
  SelectSeq(framework_labels,
            LAMBDA l : SearchImport(framework_patterns(l), content))

Range(s) == { s[i] : i \in 1..Len(s) }

\* ---------------------------------------------------- hardcoded secrets
\* The keyword of each of the four expressions, lower-cased, in list order:
\* api[_-]?key, secret, token, password.
hardcoded_patterns ==
  << { "api_key", "api-key", "apikey" }, { "secret" }, { "token" },
     { "password" } >>

\* Where a match of  <keyword>\s*=\s*<quoted literal>  starting at token i
\* ends; 0 when there is no match at i.
MatchEnd(kws, content, i) ==
  IF Lower(content[i]) \notin kws THEN 0
  ELSE LET j == SkipWs(content, i + 1) IN
       IF j > Len(content) \/ content[j] # "=" THEN 0
       ELSE LET m == SkipWs(content, j + 1) IN
            IF m <= Len(content) /\ content[m] \in QuotedLiterals
            THEN m ELSE 0

\* re.findall(pattern, content, re.IGNORECASE): the matched pieces of text,
\* left to right, not overlapping.
RECURSIVE FindAllFrom(_, _, _)
FindAllFrom(kws, content, i) ==
  IF i > Len(content) THEN << >>
  ELSE LET e == MatchEnd(kws, content, i) IN
       IF e = 0 THEN FindAllFrom(kws, content, i + 1)
       ELSE << SubSeq(content, i, e) >> \o FindAllFrom(kws, content, e + 1)

FindAll(kws, content) == FindAllFrom(kws, content, 1)

\* ------------------------------------------------------ other detectors
\* re.search(r'os\.getenv|os\.environ|load_dotenv', content), case-sensitive.
EnvUsage(content) ==
  \E i \in 1..Len(content) :
    content[i] \in { "os.getenv", "os.environ", "load_dotenv" }

\* class.*\(.*BaseModel.*\)
SearchPydanticModel(content) ==
  \E i \in 1..Len(content) :
    /\ content[i] = "class"
    /\ \E j \in (i + 1)..Len(content) :
         /\ content[j] = "("
         /\ \E k \in (j + 1)..Len(content) :
              /\ content[k] = "BaseModel"
              /\ \E l \in (k + 1)..Len(content) :
                   content[l] = ")" /\ SameLine(content, i, l)

\* async def
SearchAsyncDef(content) ==
  \E i \in 1..(Len(content) - 1) :
    content[i] = "async" /\ content[i + 1] = "def"

\* @app\.route|@router\.|@api\.
SearchRoute(content) ==
  \E i \in 1..Len(content) :
    content[i] \in { "@app.route", "@router.get", "@api.post" }

\* class.*Service|class.*Repository|class.*Controller
SearchServiceLayer(content) ==
  \E i \in 1..Len(content) :
    /\ content[i] = "class"
    /\ \E j \in (i + 1)..Len(content) :
         /\ content[j] \in { "UserService", "UserRepository",
                             "UserController" }
         /\ SameLine(content, i, j)

\* class\s+\w+.*:
SearchClass(content) ==
  \E i \in 1..Len(content) :
    /\ content[i] = "class"
    /\ LET j == SkipWs(content, i + 1) IN
         /\ j <= Len(content) /\ content[j] \in WordTokens
         /\ \E l \in (j + 1)..Len(content) :
              content[l] = ":" /\ SameLine(content, j, l)

\* def\s+\w+\(.*\)\s*->
SearchTypeHints(content) ==
  \E i \in 1..Len(content) :
    /\ content[i] = "def"
    /\ LET j == SkipWs(content, i + 1) IN
         /\ j + 1 <= Len(content) /\ content[j] \in WordTokens
         /\ content[j + 1] = "("
         /\ \E l \in (j + 2)..Len(content) :
              /\ content[l] = ")" /\ SameLine(content, j, l)
              /\ LET a == SkipWs(content, l + 1) IN
                   a <= Len(content) /\ content[a] = "->"

\* The architecture labels one content contributes.
DetectPatterns(content) ==
     (IF SearchPydanticModel(content) THEN { "Pydantic Models" } ELSE {})
  \cup (IF SearchAsyncDef(content) THEN { "Async/Await Pattern" } ELSE {})
  \cup (IF SearchRoute(content) THEN { "REST API" } ELSE {})
  \cup (IF SearchServiceLayer(content)
        THEN { "Service Layer Pattern" } ELSE {})
  \cup (IF SearchClass(content)
        THEN { "Object-Oriented Programming" } ELSE {})
  \cup (IF SearchTypeHints(content) THEN { "Type Hints" } ELSE {})

\* ------------------------------------------------------------------- state
VARIABLES
  upload_method,    \* the radio button: "zip" or "files"
  uploaded,         \* what the shown uploader holds: [some, files]
  files_content,    \* the records ingestion produced in this script run
  ui,               \* the messages on the page: <<kind, number>>
  pc,               \* per invocation: "idle", "ready", "loop", "returned", "done"
  input,            \* per invocation: the files_content argument
  idx,              \* per invocation: the position of the for loop
  analysis,         \* per invocation: the analysis dictionary
  recommendations   \* the recommendations list of the page

vars ==
  << upload_method, uploaded, files_content, ui, pc, input, idx, analysis,
     recommendations >>

\* ------------------------------------------------------------ file names
FileName(stem, ext) == [stem |-> stem, ext |-> ext]

\* name.endswith(ext) for an extension ext = ".xyz".
EndsWith(name, ext) == name.ext = ext

\* A name that only ends in '.env' taken for the env file.
IsEnvFileBySuffix(name) == EndsWith(name, ".env")

\* name == '.env'  and  name == 'requirements.txt'
IsEnvFileName(name) == name = FileName("", ".env")

IsRequirementsName(name) == name = FileName("requirements", ".txt")

\* ---------------------------------------------------------------- analyzer
Invocations == { 1, 2 }

\* An analysis dictionary that is not created anew for the call but keeps
\* what the calls so far have put into the per-file list and the line total.
StaleAnalysis(records) ==
  [ total_files   |-> Len(records),
    python_files  |-> Cardinality({ i \in 1..Len(records) :
                        EndsWith(records[i].name, ".py") }),
    total_lines   |-> analysis[1].total_lines + analysis[2].total_lines,
    llm_libraries |-> {},
    frameworks    |-> {},
    env_vars      |-> [ hardcoded |-> << >>, from_env |-> << >>,
                        has_env_file |-> FALSE ],
    architecture  |-> [ patterns |-> {} ],
    best_practices |-> << >>,
    issues        |-> << >>,
    file_details  |-> analysis[1].file_details \o analysis[2].file_details ]

\* The analysis dictionary as analyze_python_code creates it.
FreshAnalysis(records) ==
  [ total_files   |-> Len(records),
    python_files  |-> Cardinality({ i \in 1..Len(records) :
                        EndsWith(records[i].name, ".py") }),
    total_lines   |-> 0,
    llm_libraries |-> {},
    frameworks    |-> {},
    env_vars      |-> [ hardcoded |-> << >>, from_env |-> << >>,
                        has_env_file |-> FALSE ],
    architecture  |-> [ patterns |-> {} ],
    best_practices |-> << >>,
    issues        |-> << >>,
    file_details  |-> << >> ]

\* The entries the loop over hardcoded_patterns appends for one file: one
\* entry for every expression that has at least one match.
HardcodedEntries(file_name, content) ==
  SelectSeq([ p \in 1..Len(hardcoded_patterns) |->
                [ file |-> file_name,
                  matches |-> FindAll(hardcoded_patterns[p], content) ] ],
            LAMBDA e : e.matches # << >>)

\* from_env.append(file_name) without the test of the content.
FromEnvAlways(from_env, file_name, content) == Append(from_env, file_name)

\* if re.search(r'os\.getenv|...', content): from_env.append(file_name)
FromEnvAfter(from_env, file_name, content) ==
  IF EnvUsage(content) THEN Append(from_env, file_name) ELSE from_env

\* has_env_file assigned for every file instead of only set.
HasEnvFileLast(has_env_file, file_name) == IsEnvFileName(file_name)

\* if file_name == '.env': has_env_file = True
HasEnvFileAfter(has_env_file, file_name) ==
  IF IsEnvFileName(file_name) THEN TRUE ELSE has_env_file

\* One iteration that never sets the has_hardcoded flag of the file.
AnalyzeFileNoFlag(a, file_info) ==
  LET content   == file_info.content
      file_name == file_info.name
      lines     == LineCount(content)
      llms      == DetectLLMs(content)
      fws       == DetectFrameworks(content)
      found     == HardcodedEntries(file_name, content)
      file_analysis ==
        [ name |-> file_name, lines |-> lines, llms |-> llms,
          frameworks |-> fws, has_hardcoded |-> FALSE ]
  IN [ a EXCEPT
         !.total_lines = @ + lines,
         !.llm_libraries = @ \cup Range(llms),
         !.frameworks = @ \cup Range(fws),
         !.env_vars.hardcoded = @ \o found,
         !.env_vars.from_env = FromEnvAfter(@, file_name, content),
         !.env_vars.has_env_file = HasEnvFileAfter(@, file_name),
         !.architecture.patterns = @ \cup DetectPatterns(content),
         !.file_details = Append(@, file_analysis) ]

\* One iteration that leaves a file without any label or finding out of
\* the per-file list.
AnalyzeFileSkipPlain(a, file_info) ==
  LET content   == file_info.content
      file_name == file_info.name
      lines     == LineCount(content)
      llms      == DetectLLMs(content)
      fws       == DetectFrameworks(content)
      found     == HardcodedEntries(file_name, content)
      file_analysis ==
        [ name |-> file_name, lines |-> lines, llms |-> llms,
          frameworks |-> fws, has_hardcoded |-> found # << >> ]
  IN [ a EXCEPT
         !.total_lines = @ + lines,
         !.llm_libraries = @ \cup Range(llms),
         !.frameworks = @ \cup Range(fws),
         !.env_vars.hardcoded = @ \o found,
         !.env_vars.from_env = FromEnvAfter(@, file_name, content),
         !.env_vars.has_env_file = HasEnvFileAfter(@, file_name),
         !.architecture.patterns = @ \cup DetectPatterns(content),
         !.file_details =
            IF llms = << >> /\ fws = << >> /\ found = << >>
            THEN @ ELSE Append(@, file_analysis) ]

\* One iteration of  for file_info in files_content.
AnalyzeFile(a, file_info) ==
  LET content   == file_info.content
      file_name == file_info.name
      lines     == LineCount(content)
      llms      == DetectLLMs(content)
      fws       == DetectFrameworks(content)
      found     == HardcodedEntries(file_name, content)
      file_analysis ==
        [ name |-> file_name, lines |-> lines, llms |-> llms,
          frameworks |-> fws, has_hardcoded |-> found # << >> ]
  IN [ a EXCEPT
         !.total_lines = @ + lines,
         !.llm_libraries = @ \cup Range(llms),
         !.frameworks = @ \cup Range(fws),
         !.env_vars.hardcoded = @ \o found,
         !.env_vars.from_env = FromEnvAfter(@, file_name, content),
         !.env_vars.has_env_file = HasEnvFileAfter(@, file_name),
         !.architecture.patterns = @ \cup DetectPatterns(content),
         !.file_details = Append(@, file_analysis) ]

HasRequirements(records) ==
  \E i \in 1..Len(records) : IsRequirementsName(records[i].name)

\* BestPractices with the manifest recognised by its suffix instead of its
\* exact name.
BestPracticesBySuffix(a, records) ==
     (IF a.env_vars.from_env # << >>
      THEN << "Uses environment variables properly" >> ELSE << >>)
  \o (IF "Async/Await Pattern" \in a.architecture.patterns
      THEN << "Implements asynchronous programming" >> ELSE << >>)
  \o (IF \E i \in 1..Len(records) :
            EndsWith(records[i].name, ".txt")
      THEN << "Has requirements.txt for dependencies" >> ELSE << >>)
  \o (IF "Type Hints" \in a.architecture.patterns
      THEN << "Uses type hints" >> ELSE << >>)

\* The "Best practices" block (the check mark that starts each text is
\* left out of the strings).
BestPractices(a, records) ==
     (IF a.env_vars.from_env # << >>
      THEN << "Uses environment variables properly" >> ELSE << >>)
  \o (IF "Async/Await Pattern" \in a.architecture.patterns
      THEN << "Implements asynchronous programming" >> ELSE << >>)
  \o (IF HasRequirements(records)
      THEN << "Has requirements.txt for dependencies" >> ELSE << >>)
  \o (IF "Type Hints" \in a.architecture.patterns
      THEN << "Uses type hints" >> ELSE << >>)

\* Issues with the third rule not looking at the detected libraries.
IssuesWithoutLibraryTest(a, records) ==
     (IF a.env_vars.hardcoded # << >>
      THEN << "Hardcoded credentials detected" >> ELSE << >>)
  \o (IF ~HasRequirements(records)
      THEN << "Missing requirements.txt" >> ELSE << >>)
  \o (IF ~a.env_vars.has_env_file
      THEN << "No .env file found (recommended for API keys)" >>
      ELSE << >>)

\* The "Issues" block (the warning sign that starts each text is left out).
Issues(a, records) ==
     (IF a.env_vars.hardcoded # << >>
      THEN << "Hardcoded credentials detected" >> ELSE << >>)
  \o (IF ~HasRequirements(records)
      THEN << "Missing requirements.txt" >> ELSE << >>)
  \o (IF ~a.env_vars.has_env_file /\ a.llm_libraries # {}
      THEN << "No .env file found (recommended for API keys)" >>
      ELSE << >>)

\* Recommendations with the async advice not looking at the detected
\* libraries.
RecommendationsAsyncAlways(a) ==
     (IF a.env_vars.hardcoded # << >>
      THEN << "Move hardcoded credentials to environment variables" >>
      ELSE << >>)
  \o (IF ~a.env_vars.has_env_file
      THEN << "Create a .env file for configuration" >> ELSE << >>)
  \o (IF a.llm_libraries # {}
      THEN << "Implement proper error handling for API calls",
              "Add rate limiting and retry logic" >>
      ELSE << >>)
  \o (IF "Async/Await Pattern" \notin a.architecture.patterns
      THEN << "Consider using async/await for better performance" >>
      ELSE << >>)
  \o << "Add comprehensive logging", "Implement unit tests",
        "Add docstrings to functions and classes" >>

\* The recommendations list the page builds from the returned analysis.
Recommendations(a) ==
     (IF a.env_vars.hardcoded # << >>
      THEN << "Move hardcoded credentials to environment variables" >>
      ELSE << >>)
  \o (IF ~a.env_vars.has_env_file
      THEN << "Create a .env file for configuration" >> ELSE << >>)
  \o (IF a.llm_libraries # {}
      THEN << "Implement proper error handling for API calls",
              "Add rate limiting and retry logic" >>
      ELSE << >>)
  \o (IF "Async/Await Pattern" \notin a.architecture.patterns
         /\ a.llm_libraries # {}
      THEN << "Consider using async/await for better performance" >>
      ELSE << >>)
  \o << "Add comprehensive logging", "Implement unit tests",
        "Add docstrings to functions and classes" >>

\* --------------------------------------------------------------- ingestion
\* The suffixes extract_files_from_zip keeps, and the types the file
\* uploader of the direct path accepts.
RecognizedExtensions == { ".py", ".txt", ".toml", ".env", ".cfg", ".ini" }

UploaderTypes == { ".py", ".txt", ".toml", ".env", ".cfg", ".ini" }

\* No test of the suffix at all.
AnyExtension(path) == TRUE

\* file_name.endswith(('.py', '.txt', '.toml', '.env', '.cfg', '.ini')) on
\* the in-archive path: the path ends as its last component does.
HasRecognizedExtension(path) ==
  \E ext \in RecognizedExtensions : EndsWith(path.name, ext)

\* The try around the whole loop instead of around one entry: the first
\* decode failure ends the extraction.
RECURSIVE ExtractUntilFailure(_)
ExtractUntilFailure(entries) ==
  IF entries = << >> THEN << >>
  ELSE LET e == Head(entries) IN
       IF ~HasRecognizedExtension(e.path)
       THEN ExtractUntilFailure(Tail(entries))
       ELSE IF e.data.decodable
            THEN << [ name |-> e.path.name, path |-> e.path,
                      content |-> e.data.text ] >>
                   \o ExtractUntilFailure(Tail(entries))
            ELSE << >>

\* The archive path: the record of one entry when its bytes decode, nothing
\* when decode('utf-8') raises (except: pass).
RECURSIVE ExtractFilesFromZip(_)
ExtractFilesFromZip(entries) ==
  IF entries = << >> THEN << >>
  ELSE LET e == Head(entries)
           rest == ExtractFilesFromZip(Tail(entries))
       IN IF HasRecognizedExtension(e.path) /\ e.data.decodable
          THEN << [ name |-> e.path.name, path |-> e.path,
                    content |-> e.data.text ] >> \o rest
          ELSE rest

\* The direct path: one record for every uploaded file whose bytes decode.
\* The browser hands over the base name only.
RECURSIVE ReadUploadedFiles(_)
ReadUploadedFiles(uploaded_files) ==
  IF uploaded_files = << >> THEN << >>
  ELSE LET f == Head(uploaded_files)
           rest == ReadUploadedFiles(Tail(uploaded_files))
       IN IF f.data.decodable
          THEN << [ name |-> f.path.name,
                    path |-> [ dirs |-> << >>, name |-> f.path.name ],
                    content |-> f.data.text ] >> \o rest
          ELSE rest

\* st.file_uploader(type=['py', 'txt', 'toml', 'env', 'cfg', 'ini']) hands
\* the script only files of the listed types.
FileUploaderAccepts(f) ==
  \E ext \in UploaderTypes : EndsWith(f.path.name, ext)

\* The Analyze button shown whatever files_content holds.
ShowAnalyzeButtonAlways(records) == TRUE

\* if files_content:  -- the part of the page that holds the Analyze button.
ShowAnalyzeButton(records) == records # << >>

\* ------------------------------------------------------ the input catalog
Text(tokens) == [ decodable |-> TRUE, text |-> tokens ]

NotText == [ decodable |-> FALSE, text |-> << >> ]

RawFile(dirs, stem, ext, data) ==
  [ path |-> [ dirs |-> dirs, name |-> FileName(stem, ext) ], data |-> data ]

\* The files a user may put into an upload.
RawCatalog ==
  { RawFile(<< >>, "app", ".py",
      Text(<< "import", "openai", NL, "api_key", "=", "'sk-12345'", NL >>)),
    RawFile(<< "src" >>, "config", ".py",
      Text(<< "api_key", "=", "'k'", NL, "PASSWORD", "=", "'p'" >>)),
    RawFile(<< "deploy" >>, "", ".env", Text(<< "API_KEY=abc" >>)),
    RawFile(<< >>, "requirements", ".txt",
      Text(<< "openai", NL, "fastapi", NL >>)),
    RawFile(<< >>, "main", ".py",
      Text(<< "from", "fastapi", "import", "FastAPI", NL,
              "async", "def", "handler", "(", ")", ":", "pass", NL >>)),
    RawFile(<< >>, "util", ".py",
      Text(<< "key", "=", "os.getenv", "(", "'k'", ")", NL,
              "def", "f", "(", ")", "->", "int", ":", "pass" >>)),
    RawFile(<< "pkg" >>, "models", ".py",
      Text(<< "class", "UserService", "(", "BaseModel", ")", ":", "pass" >>)),
    RawFile(<< >>, "notes", ".txt", Text(<< >>)),
    RawFile(<< >>, "prod", ".env", Text(<< "x", "=", "1", NL >>)),
    RawFile(<< >>, "bad", ".py", NotText),
    RawFile(<< >>, "README", ".md", Text(<< "x", "=", "1" >>)),
    RawFile(<< "pkg" >>, "app", ".py",
      Text(<< "import", "streamlit", "as", "st" >>)) }

SeqsUpTo(S, n) == UNION { [ 1..k -> S ] : k \in 0..n }

\* A source record as ingestion builds it from a file of the upload's top
\* level.
SourceRecord(stem, ext, tokens) ==
  [ name |-> FileName(stem, ext),
    path |-> [ dirs |-> << >>, name |-> FileName(stem, ext) ],
    content |-> tokens ]

\* The records two concurrent analyses are run on.
PairCatalog ==
  { SourceRecord("app", ".py",
      << "import", "openai", NL, "api_key", "=", "'sk-12345'", NL >>),
    SourceRecord("", ".env", << "API_KEY=abc" >>),
    SourceRecord("main", ".py",
      << "from", "fastapi", "import", "FastAPI", NL,
         "async", "def", "handler", "(", ")", ":", "pass", NL >>),
    SourceRecord("util", ".py",
      << "key", "=", "os.getenv", "(", "'k'", ")", NL >>),
    SourceRecord("prod", ".env", << "x", "=", "1", NL >>) }

\* The orderings of a sequence.
Orderings(s) ==
  { [ i \in 1..Len(s) |-> s[p[i]] ] : p \in Permutations(1..Len(s)) }

\* The inputs of the second analysis: the first one's input reordered, or
\* with one more record at its end.
Related(s) == Orderings(s) \cup { Append(s, r) : r \in PairCatalog }

\* The value that stands for "no analysis dictionary exists".
NoAnalysis ==
  [ total_files |-> 0, python_files |-> 0, total_lines |-> 0,
    llm_libraries |-> {}, frameworks |-> {},
    env_vars |-> [ hardcoded |-> << >>, from_env |-> << >>,
                   has_env_file |-> FALSE ],
    architecture |-> [ patterns |-> {} ],
    best_practices |-> << >>, issues |-> << >>, file_details |-> << >> ]

InfoGetStarted == << "info", 0 >>

ErrorNoPythonFiles == << "error", 0 >>

Success(n) == << "success", n >>

\* The page before any upload: the archive uploader is shown and empty.
Init ==
  /\ upload_method = "zip"
  /\ uploaded = [ some |-> FALSE, files |-> << >> ]
  /\ files_content = << >>
  /\ ui = { InfoGetStarted }
  /\ pc = [ k \in Invocations |-> "idle" ]
  /\ input = [ k \in Invocations |-> << >> ]
  /\ idx = [ k \in Invocations |-> 0 ]
  /\ analysis = [ k \in Invocations |-> NoAnalysis ]
  /\ recommendations = << >>

\* A script run in which the Analyze button is not pressed shows no results.
NoResults ==
  /\ pc' = [ pc EXCEPT ![1] = "idle" ]
  /\ input' = [ input EXCEPT ![1] = << >> ]
  /\ idx' = [ idx EXCEPT ![1] = 0 ]
  /\ analysis' = [ analysis EXCEPT ![1] = NoAnalysis ]
  /\ recommendations' = << >>

\* The user switches the upload method: the other uploader is shown, empty.
SelectMethod(m) ==
  /\ m # upload_method
  /\ upload_method' = m
  /\ uploaded' = [ some |-> FALSE, files |-> << >> ]
  /\ files_content' = << >>
  /\ ui' = { InfoGetStarted }
  /\ NoResults

\* The user uploads an archive: the script extracts it and reports.
UploadZip ==
  /\ upload_method = "zip"
  /\ ~uploaded.some
  /\ \E entries \in SeqsUpTo(RawCatalog, MaxUpload) :
       /\ uploaded' = [ some |-> TRUE, files |-> entries ]
       /\ files_content' = ExtractFilesFromZip(entries)
  /\ ui' = IF files_content' # << >>
           THEN { Success(Len(files_content')) }
           ELSE { ErrorNoPythonFiles, InfoGetStarted }
  /\ NoResults
  /\ UNCHANGED upload_method

\* The user uploads files one by one: the uploader hands over the accepted
\* ones, the script reads them and reports.
UploadFiles ==
  /\ upload_method = "files"
  /\ ~uploaded.some
  /\ \E files \in SeqsUpTo({ f \in RawCatalog : FileUploaderAccepts(f) },
                           MaxUpload) :
       /\ files # << >>
       /\ uploaded' = [ some |-> TRUE, files |-> files ]
       /\ files_content' = ReadUploadedFiles(files)
  /\ ui' = { Success(Len(files_content')) }
             \cup (IF ShowAnalyzeButton(files_content')
                   THEN {} ELSE { InfoGetStarted })
  /\ NoResults
  /\ UNCHANGED upload_method

\* The user removes the upload from the uploader: the page is as at the start.
ClearUpload ==
  /\ uploaded.some
  /\ uploaded' = [ some |-> FALSE, files |-> << >> ]
  /\ files_content' = << >>
  /\ ui' = { InfoGetStarted }
  /\ NoResults
  /\ UNCHANGED upload_method

\* The user presses Analyze: analyze_python_code is called on files_content.
ClickAnalyze ==
  /\ ShowAnalyzeButton(files_content)
  /\ pc[1] \in { "idle", "done" }
  /\ input' = [ input EXCEPT ![1] = files_content ]
  /\ analysis' = [ analysis EXCEPT ![1] = FreshAnalysis(files_content) ]
  /\ idx' = [ idx EXCEPT ![1] = 1 ]
  /\ pc' = [ pc EXCEPT ![1] = "loop" ]
  /\ recommendations' = << >>
  /\ UNCHANGED << upload_method, uploaded, files_content, ui >>

\* A call of analyze_python_code begins (two concurrent sessions).
Start(k) ==
  /\ pc[k] = "ready"
  /\ analysis' = [ analysis EXCEPT ![k] = FreshAnalysis(input[k]) ]
  /\ idx' = [ idx EXCEPT ![k] = 1 ]
  /\ pc' = [ pc EXCEPT ![k] = "loop" ]
  /\ UNCHANGED << upload_method, uploaded, files_content, ui, input,
                  recommendations >>

\* One iteration of the loop over files_content.
ProcessFile(k) ==
  /\ pc[k] = "loop"
  /\ idx[k] <= Len(input[k])
  /\ analysis' = [ analysis EXCEPT ![k] = AnalyzeFile(@, input[k][idx[k]]) ]
  /\ idx' = [ idx EXCEPT ![k] = @ + 1 ]
  /\ UNCHANGED << upload_method, uploaded, files_content, ui, pc, input,
                  recommendations >>

\* After the loop: best practices and issues are derived, the call returns.
Derive(k) ==
  /\ pc[k] = "loop"
  /\ idx[k] > Len(input[k])
  /\ analysis' = [ analysis EXCEPT
                     ![k].best_practices = @ \o BestPractices(analysis[k], input[k]),
                     ![k].issues = @ \o Issues(analysis[k], input[k]) ]
  /\ pc' = [ pc EXCEPT ![k] = "returned" ]
  /\ UNCHANGED << upload_method, uploaded, files_content, ui, input, idx,
                  recommendations >>

\* The page renders the returned analysis and builds the recommendations.
Render ==
  /\ pc[1] = "returned"
  /\ recommendations' = Recommendations(analysis[1])
  /\ pc' = [ pc EXCEPT ![1] = "done" ]
  /\ UNCHANGED << upload_method, uploaded, files_content, ui, input, idx,
                  analysis >>

\* One session of the application.
Next ==
  \/ \E m \in { "zip", "files" } : SelectMethod(m)
  \/ UploadZip
  \/ UploadFiles
  \/ ClearUpload
  \/ ClickAnalyze
  \/ ProcessFile(1)
  \/ Derive(1)
  \/ Render

Spec == Init /\ [][Next]_vars

\* Two calls of analyze_python_code that run concurrently (two sessions of
\* the server), each on its own argument.  The page calls the function on a
\* non-empty files_content only.
InitPair ==
  /\ upload_method = "zip"
  /\ uploaded = [ some |-> FALSE, files |-> << >> ]
  /\ files_content = << >>
  /\ ui = { InfoGetStarted }
  /\ pc = [ k \in Invocations |-> "ready" ]
  /\ \E a \in SeqsUpTo(PairCatalog, MaxPair) \ { << >> } :
       \E b \in Related(a) : input = << a, b >>
  /\ idx = [ k \in Invocations |-> 0 ]
  /\ analysis = [ k \in Invocations |-> NoAnalysis ]
  /\ recommendations = << >>

NextPair ==
  \E k \in Invocations : Start(k) \/ ProcessFile(k) \/ Derive(k)

SpecPair == InitPair /\ [][NextPair]_vars

\* ================================================================== claims
\* The report of the session's analysis, under the names the specification
\* of the program uses.
credentialFindings == analysis[1].env_vars.hardcoded

detectedLibraries == analysis[1].llm_libraries

hasEnvFile == analysis[1].env_vars.has_env_file

envUsingFiles == analysis[1].env_vars.from_env

architecturePatterns == analysis[1].architecture.patterns

Returned == pc[1] \in { "returned", "done" }

\* Every match of the four expressions in one content, expression by
\* expression.
CollectedMatches(content) ==
  FindAll(hardcoded_patterns[1], content)
    \o FindAll(hardcoded_patterns[2], content)
    \o FindAll(hardcoded_patterns[3], content)
    \o FindAll(hardcoded_patterns[4], content)

\* The positions of the records the loop has processed.
Processed == 1..(idx[1] - 1)

\* C1: credentialFindings holds exactly one entry per processed file whose
\* collected match sequence over the four expressions is non-empty: no file
\* contributes more than one entry, and a file contributes one iff it has a
\* match.
C1_OneEntryPerFile ==
  pc[1] # "idle" =>
    Len(credentialFindings) =
      Cardinality({ i \in Processed :
                      CollectedMatches(input[1][i].content) # << >> })

\* The conditional recommendations, in the order of the claim, each with the
\* condition the claim gives it.
ConditionalRecommendations ==
  SelectSeq(
    << "Move hardcoded credentials to environment variables",
       "Create a .env file for configuration",
       "Implement proper error handling for API calls",
       "Add rate limiting and retry logic",
       "Consider using async/await for better performance" >>,
    LAMBDA r :
      CASE r = "Move hardcoded credentials to environment variables" ->
             credentialFindings # << >>
        [] r = "Create a .env file for configuration" -> ~hasEnvFile
        [] r = "Implement proper error handling for API calls" ->
             detectedLibraries # {}
        [] r = "Add rate limiting and retry logic" -> detectedLibraries # {}
        [] r = "Consider using async/await for better performance" ->
             detectedLibraries # {}
               /\ "Async/Await Pattern" \notin architecturePatterns)

\* C2 as stated: the conditional recommendations in order, followed by four
\* unconditional closing recommendations.
C2_FourClosingRecommendations ==
  pc[1] = "done" =>
    /\ Len(recommendations) = Len(ConditionalRecommendations) + 4
    /\ SubSeq(recommendations, 1, Len(ConditionalRecommendations))
         = ConditionalRecommendations

\* C2 amended: the recommendations are exactly the conditional ones, in
\* order and each under its condition, followed by three unconditional
\* closing recommendations: logging, unit tests, docstrings.
C2_ThreeClosingRecommendations ==
  pc[1] = "done" =>
    recommendations =
      ConditionalRecommendations
        \o << "Add comprehensive logging", "Implement unit tests",
              "Add docstrings to functions and classes" >>

\* A rendered analysis in which all five conditional recommendations are
\* present before the closing ones.
C2_Witness ==
  /\ pc[1] = "done"
  /\ Len(recommendations) = 8

\* C3: no issue exists before the loop is over; after it, the issues are, in
\* this order and nothing else: hardcoded credentials iff credentialFindings
\* is non-empty, missing manifest iff no record is named requirements.txt,
\* no env file iff hasEnvFile is false and detectedLibraries is non-empty.
C3_Issues ==
  /\ pc[1] \in { "idle", "loop" } => analysis[1].issues = << >>
  /\ Returned =>
       analysis[1].issues =
         SelectSeq(
           << "Hardcoded credentials detected", "Missing requirements.txt",
              "No .env file found (recommended for API keys)" >>,
           LAMBDA s :
             CASE s = "Hardcoded credentials detected" ->
                    credentialFindings # << >>
               [] s = "Missing requirements.txt" ->
                    \A i \in 1..Len(input[1]) :
                      input[1][i].name # FileName("requirements", ".txt")
               [] s = "No .env file found (recommended for API keys)" ->
                    ~hasEnvFile /\ detectedLibraries # {})

\* Returned analyses with all three issues exist.
C3_Witness ==
  /\ Returned
  /\ Len(analysis[1].issues) = 3

\* C4: the best practices are, in table order and nothing else: environment
\* variables iff envUsingFiles is non-empty, asynchronous programming iff
\* the async pattern was detected, dependency manifest iff a record is named
\* requirements.txt, type hints iff the type-hints pattern was detected; and
\* exactly one of the manifest best practice and the missing-manifest issue
\* is emitted.
C4_BestPractices ==
  Returned =>
    /\ analysis[1].best_practices =
         SelectSeq(
           << "Uses environment variables properly",
              "Implements asynchronous programming",
              "Has requirements.txt for dependencies", "Uses type hints" >>,
           LAMBDA s :
             CASE s = "Uses environment variables properly" ->
                    envUsingFiles # << >>
               [] s = "Implements asynchronous programming" ->
                    "Async/Await Pattern" \in architecturePatterns
               [] s = "Has requirements.txt for dependencies" ->
                    \E i \in 1..Len(input[1]) :
                      input[1][i].name = FileName("requirements", ".txt")
               [] s = "Uses type hints" ->
                    "Type Hints" \in architecturePatterns)
    /\ ("Has requirements.txt for dependencies"
          \in Range(analysis[1].best_practices))
         # ("Missing requirements.txt" \in Range(analysis[1].issues))

\* A returned analysis of an upload with a manifest and another text file,
\* with all four best practices.
C4_Witness ==
  /\ Returned
  /\ Len(analysis[1].best_practices) = 4
  /\ "Missing requirements.txt" \notin Range(analysis[1].issues)

\* ---------------------------------------------- two concurrent analyses
BothReturned == pc[1] = "returned" /\ pc[2] = "returned"

\* The detection results of invocation k.
DetectionSets(k) ==
  << analysis[k].llm_libraries, analysis[k].frameworks,
     analysis[k].architecture.patterns,
     Range(analysis[k].env_vars.from_env) >>

Names(records) == [ i \in 1..Len(records) |-> records[i].name ]

\* The findings of invocation k name files in the order of its input.
FindingsFollowInput(k) ==
  LET h == analysis[k].env_vars.hardcoded IN
  \A i, j \in 1..Len(h) :
    i <= j =>
      \E p, q \in 1..Len(input[k]) :
        p <= q /\ input[k][p].name = h[i].file /\ input[k][q].name = h[j].file

\* C5: when the input of one analysis is a reordering of the input of the
\* other, both report the same detectedLibraries, detectedFrameworks,
\* architecturePatterns, envUsingFiles (as a set) and hasEnvFile; fileDetails
\* and credentialFindings follow the order of each one's own input.
C5_OrderIndependence ==
  (BothReturned /\ input[2] \in Orderings(input[1])) =>
    /\ DetectionSets(1) = DetectionSets(2)
    /\ analysis[1].env_vars.has_env_file = analysis[2].env_vars.has_env_file
    /\ \A k \in Invocations :
         /\ Names(analysis[k].file_details) = Names(input[k])
         /\ FindingsFollowInput(k)

\* Two analyses of one collection in two different orders, with a '.env'
\* record, a detected library and a finding, have returned.
C5_Witness ==
  /\ BothReturned
  /\ input[2] \in Orderings(input[1])
  /\ Names(input[2]) # Names(input[1])
  /\ analysis[1].env_vars.has_env_file
  /\ analysis[1].llm_libraries # {}
  /\ analysis[1].env_vars.hardcoded # << >>
  /\ analysis[1].file_details # analysis[2].file_details

\* A content that matches no pattern at all.
MatchesNothing(content) ==
  /\ DetectLLMs(content) = << >>
  /\ DetectFrameworks(content) = << >>
  /\ CollectedMatches(content) = << >>
  /\ ~EnvUsage(content)
  /\ DetectPatterns(content) = {}

\* The input of the second analysis is the input of the first with one more
\* record, of a content that matches nothing, at its end.
CleanRecordAppended ==
  /\ Len(input[2]) = Len(input[1]) + 1
  /\ SubSeq(input[2], 1, Len(input[1])) = input[1]
  /\ MatchesNothing(input[2][Len(input[2])].content)

Added == input[2][Len(input[2])]

\* What the claim says of the counters and of the findings.
CountersAndFindingsOfAppended ==
  /\ analysis[2].env_vars.hardcoded = analysis[1].env_vars.hardcoded
  /\ analysis[2].total_files = analysis[1].total_files + 1
  /\ analysis[2].total_lines =
       analysis[1].total_lines
         + Cardinality({ i \in 1..Len(Added.content) :
                           Added.content[i] = "\n" }) + 1

\* C6 as stated: a record of any name whose content matches nothing leaves
\* the detection sets, hasEnvFile and credentialFindings as they are.
C6_AnyName ==
  (BothReturned /\ CleanRecordAppended) =>
    /\ DetectionSets(2) = DetectionSets(1)
    /\ analysis[2].env_vars.has_env_file = analysis[1].env_vars.has_env_file
    /\ CountersAndFindingsOfAppended

\* C6 amended: a record whose content matches nothing leaves the detection
\* sets and credentialFindings as they are; hasEnvFile stays as it is when
\* the record is not named '.env' and is true when it is; total_files grows
\* by 1, total_lines by the record's line count, python_files by 1 iff the
\* name ends in .py.
C6_NotNamedEnv ==
  (BothReturned /\ CleanRecordAppended) =>
    /\ DetectionSets(2) = DetectionSets(1)
    /\ analysis[2].env_vars.has_env_file =
         (analysis[1].env_vars.has_env_file
            \/ Added.name = FileName("", ".env"))
    /\ CountersAndFindingsOfAppended
    /\ analysis[2].python_files =
         analysis[1].python_files + (IF Added.name.ext = ".py" THEN 1 ELSE 0)

\* A record of two lines, not named '.env', was appended to a collection with
\* a library, a finding and no '.env' record.
C6_Witness ==
  /\ BothReturned
  /\ CleanRecordAppended
  /\ Added.name # FileName("", ".env")
  /\ LineCount(Added.content) = 2
  /\ analysis[1].llm_libraries # {}
  /\ analysis[1].env_vars.hardcoded # << >>
  /\ ~analysis[2].env_vars.has_env_file

Recognized(name) ==
  name.ext \in { ".py", ".txt", ".toml", ".env", ".cfg", ".ini" }

Ingestible ==
  SelectSeq(uploaded.files,
            LAMBDA f : Recognized(f.path.name) /\ f.data.decodable)

\* Some eligible file of the upload failed to decode.
DecodeFailed ==
  \E i \in 1..Len(uploaded.files) :
    Recognized(uploaded.files[i].path.name)
      /\ ~uploaded.files[i].data.decodable

\* The records are those of the files that decode, in their order.
OthersIngestedInOrder ==
  /\ Len(files_content) = Len(Ingestible)
  /\ \A i \in 1..Len(files_content) :
       /\ files_content[i].name = Ingestible[i].path.name
       /\ files_content[i].content = Ingestible[i].data.text

\* C9 as stated: when a file fails to decode, the others are ingested in
\* order and no error is shown to the user, also when every file fails.
C9_NoErrorSurfaced ==
  (uploaded.some /\ DecodeFailed) =>
    /\ OthersIngestedInOrder
    /\ \A m \in ui : m[1] # "error"

\* C9 amended: a file that fails to decode yields no record and the others
\* are ingested in order; no error names the file, and the page shows an
\* error exactly when archive ingestion ends with no record at all (the
\* direct path then reports 0 uploaded files as a success).
C9_ErrorOnlyWhenArchiveYieldsNothing ==
  uploaded.some =>
    /\ OthersIngestedInOrder
    /\ (\E m \in ui : m[1] = "error")
         <=> (upload_method = "zip" /\ files_content = << >>)
    /\ upload_method = "files" => << "success", Len(files_content) >> \in ui

\* An upload of three files whose second one fails to decode, the first and
\* the third being ingested.
C9_Witness ==
  /\ uploaded.some
  /\ Len(uploaded.files) = 3
  /\ Recognized(uploaded.files[2].path.name)
  /\ ~uploaded.files[2].data.decodable
  /\ Len(files_content) = 2
  /\ files_content[1].name = uploaded.files[1].path.name
  /\ files_content[2].name = uploaded.files[3].path.name

\* A report with all-zero and empty fields.
AllEmpty(a) ==
  /\ a.total_files = 0 /\ a.python_files = 0 /\ a.total_lines = 0
  /\ a.llm_libraries = {} /\ a.frameworks = {}
  /\ a.env_vars.hardcoded = << >> /\ a.env_vars.from_env = << >>
  /\ ~a.env_vars.has_env_file
  /\ a.architecture.patterns = {}
  /\ a.best_practices = << >> /\ a.issues = << >>
  /\ a.file_details = << >>

\* C10: when ingestion yields no record, the analysis is not run, or its
\* report has only zero and empty fields; no finding, issue or
\* recommendation is produced for an empty collection.
C10_EmptyInput ==
  files_content = << >> =>
    \/ pc[1] = "idle"
    \/ AllEmpty(analysis[1]) /\ recommendations = << >>

\* An upload in which every file failed to decode: no record, no analysis,
\* the page asks for an upload.
C10_Witness ==
  /\ uploaded.some
  /\ uploaded.files # << >>
  /\ files_content = << >>
  /\ pc[1] = "idle"
  /\ << "info", 0 >> \in ui

\* ------------------------------------------------------ per-file breakdown
fileDetails == analysis[1].file_details

RECURSIVE SumOfLines(_)
SumOfLines(details) ==
  IF details = << >> THEN 0
  ELSE Head(details).lines + SumOfLines(Tail(details))

\* The number of newline characters of a content, plus one.
NewlinesPlusOne(content) ==
  Cardinality({ i \in 1..Len(content) : content[i] = "\n" }) + 1

RECURSIVE SumOfNewlinesPlusOne(_)
SumOfNewlinesPlusOne(records) ==
  IF records = << >> THEN 0
  ELSE NewlinesPlusOne(Head(records).content)
         + SumOfNewlinesPlusOne(Tail(records))

\* The loop processes a record whose content is the empty string.
EmptyRecordStep ==
  /\ pc[1] = "loop"
  /\ idx[1] <= Len(input[1])
  /\ input[1][idx[1]].content = << >>
  /\ idx'[1] = idx[1] + 1

\* The step adds one line and no label, finding, env-usage entry or pattern.
OneLineAndNoMatch ==
  /\ analysis'[1].total_lines = analysis[1].total_lines + 1
  /\ analysis'[1].llm_libraries = analysis[1].llm_libraries
  /\ analysis'[1].frameworks = analysis[1].frameworks
  /\ analysis'[1].env_vars.hardcoded = analysis[1].env_vars.hardcoded
  /\ analysis'[1].env_vars.from_env = analysis[1].env_vars.from_env
  /\ analysis'[1].architecture.patterns = analysis[1].architecture.patterns
  /\ LET d == analysis'[1].file_details[Len(analysis'[1].file_details)] IN
       /\ d.lines = 1
       /\ d.llms = << >> /\ d.frameworks = << >> /\ ~d.has_hardcoded

\* C12: in the returned report total_lines is the sum, over all records, of
\* the number of newline characters plus 1; and processing a record with
\* empty content adds exactly 1 to total_lines and nothing to any detector.
C12_LineTotalAndEmptyContent ==
  /\ [](Returned =>
          analysis[1].total_lines = SumOfNewlinesPlusOne(input[1]))
  /\ [][EmptyRecordStep => OneLineAndNoMatch]_vars

\* A returned report of an empty record processed after a record with a
\* library, a finding and three lines.
C12_Witness ==
  /\ Returned
  /\ Len(input[1]) = 2
  /\ input[1][1].content # << >>
  /\ input[1][2].content = << >>
  /\ analysis[1].llm_libraries # {}
  /\ analysis[1].env_vars.hardcoded # << >>
  /\ analysis[1].total_lines = 4

\* ----------------------------------------------------------- env handling
DotEnv == FileName("", ".env")

\* The content refers to os.getenv, os.environ or load_dotenv.
UsesEnvironment(content) ==
  \E i \in 1..Len(content) :
    content[i] = "os.getenv" \/ content[i] = "os.environ"
      \/ content[i] = "load_dotenv"

\* C13: hasEnvFile is true iff a processed record is named exactly '.env'
\* (in the returned report: iff some input record is); an archive entry
\* whose final path component is '.env' is ingested under the name '.env',
\* whatever its directory, and so sets hasEnvFile, while an entry that only
\* ends in '.env' is ingested and does not; every processed record whose
\* content uses os.getenv, os.environ or load_dotenv is in envUsingFiles.
C13_EnvFile ==
  /\ pc[1] # "idle" =>
       /\ hasEnvFile <=> \E i \in Processed : input[1][i].name = DotEnv
       /\ \A i \in Processed :
            UsesEnvironment(input[1][i].content) =>
              input[1][i].name \in Range(envUsingFiles)
  /\ (upload_method = "zip" /\ uploaded.some) =>
       /\ \A i \in 1..Len(uploaded.files) :
            LET f == uploaded.files[i] IN
            (f.data.decodable /\ f.path.name.ext = ".env") =>
              \E j \in 1..Len(files_content) :
                /\ files_content[j].name = f.path.name
                /\ files_content[j].path = f.path
       /\ Returned =>
            (hasEnvFile <=>
               \E i \in 1..Len(uploaded.files) :
                 /\ uploaded.files[i].data.decodable
                 /\ uploaded.files[i].path.name = DotEnv)

\* The returned report of an archive that holds a '.env' inside a directory,
\* a file that only ends in '.env', and a file that calls os.getenv.
C13_Witness ==
  /\ Returned
  /\ upload_method = "zip"
  /\ Len(input[1]) = 3
  /\ \E i \in 1..3 :
       input[1][i].name = DotEnv /\ input[1][i].path.dirs # << >>
  /\ \E i \in 1..3 :
       input[1][i].name.ext = ".env" /\ input[1][i].name # DotEnv
  /\ hasEnvFile
  /\ envUsingFiles # << >>

\* ------------------------------------------- aggregate and breakdown agree
\* The loop processes one record.
LoopStep ==
  /\ pc[1] = "loop"
  /\ idx[1] <= Len(input[1])
  /\ idx'[1] = idx[1] + 1

\* The entry the step appends is flagged iff the step appended findings, and
\* the findings it appended name the record it processed.
FlagMatchesAppendedFindings ==
  LET before == analysis[1].env_vars.hardcoded
      after  == analysis'[1].env_vars.hardcoded
      entry  == analysis'[1].file_details[Len(analysis'[1].file_details)]
  IN /\ Len(after) >= Len(before)
     /\ SubSeq(after, 1, Len(before)) = before
     /\ entry.has_hardcoded <=> Len(after) > Len(before)
     /\ \A j \in (Len(before) + 1)..Len(after) :
          after[j].file = input[1][idx[1]].name

\* C14: after every processed record detectedLibraries is the union of the
\* 'llms' lists of the fileDetails entries and detectedFrameworks the union
\* of their 'frameworks' lists; the entry of a record has has_hardcoded true
\* iff processing that record appended findings, which name it; and the
\* hardcoded-credentials issue is emitted iff some entry has has_hardcoded
\* true.
C14_AggregateMatchesBreakdown ==
  /\ [](pc[1] # "idle" =>
          /\ analysis[1].llm_libraries =
               UNION { Range(fileDetails[i].llms) :
                         i \in 1..Len(fileDetails) }
          /\ analysis[1].frameworks =
               UNION { Range(fileDetails[i].frameworks) :
                         i \in 1..Len(fileDetails) })
  /\ [](Returned =>
          (("Hardcoded credentials detected" \in Range(analysis[1].issues))
             <=> \E i \in 1..Len(fileDetails) : fileDetails[i].has_hardcoded))
  /\ [][LoopStep => FlagMatchesAppendedFindings]_vars

\* The returned report of two records of the same name, the first with a
\* library and a finding, the second with a framework and no finding.
C14_Witness ==
  /\ Returned
  /\ Len(input[1]) = 2
  /\ input[1][1].name = input[1][2].name
  /\ fileDetails[1].has_hardcoded
  /\ ~fileDetails[2].has_hardcoded
  /\ fileDetails[1].llms # << >>
  /\ fileDetails[2].frameworks # << >>
  /\ "Hardcoded credentials detected" \in Range(analysis[1].issues)

====
